---- MODULE Spec2Model ----
(***************************************************************************)
(* Annovate (src/annovate.py): the MetaFile record store, its text record  *)
(* and the get / set / list commands of main.                              *)
(*                                                                         *)
(* Text is a sequence of characters (one-character strings).  A Python     *)
(* dict is a sequence of [key, val] entries with unique keys, in insertion *)
(* order.  An Optional value is a sequence of length 0 (None) or 1.  A     *)
(* datetime is a natural number; isoformat writes it in decimal digits and *)
(* fromisoformat reads decimal digits back.                                *)
(***************************************************************************)
EXTENDS Integers, Sequences, FiniteSets, TLC

\* ------------------------------------------------------------------ bounds
MaxTime == 2
MaxBatches == 2

\* ------------------------------------------------------------ text helpers
NL == "\n"
AT == "@"
EQ == "="

None == << >>
Some(x) == << x >>

StartsWith(s, c) == Len(s) > 0 /\ s[1] = c

EndsWith(s, c) == Len(s) > 0 /\ s[Len(s)] = c

\* s[1:]
DropFirst(s) == IF Len(s) = 0 THEN << >> ELSE Tail(s)

\* str.rstrip('\n')
RECURSIVE RStripNL(_)
RStripNL(s) ==
    IF EndsWith(s, NL) THEN RStripNL(SubSeq(s, 1, Len(s) - 1)) ELSE s

\* index of the first occurrence of c in s, 0 when there is none
RECURSIVE FindFrom(_, _, _)
FindFrom(s, c, i) ==
    IF i > Len(s) THEN 0
    ELSE IF s[i] = c THEN i
    ELSE FindFrom(s, c, i + 1)

Find(s, c) == FindFrom(s, c, 1)

\* str.split(c): every occurrence of c separates two pieces
RECURSIVE Split(_, _)
Split(s, c) ==
    LET i == Find(s, c) IN
    IF i = 0 THEN << s >>
    ELSE << SubSeq(s, 1, i - 1) >> \o Split(SubSeq(s, i + 1, Len(s)), c)

\* a split without maxsplit
SplitEvery(s, c) == Split(s, c)

\* str.split(c, maxsplit=1)
SplitOnce(s, c) ==
    LET i == Find(s, c) IN
    IF i = 0 THEN << s >>
    ELSE << SubSeq(s, 1, i - 1), SubSeq(s, i + 1, Len(s)) >>

\* iteration over a text file: the lines, each with its terminating newline
RECURSIVE ReadLines(_)
ReadLines(text) ==
    LET i == Find(text, NL) IN
    IF Len(text) = 0 THEN << >>
    ELSE IF i = 0 THEN << text >>
    ELSE << SubSeq(text, 1, i) >> \o ReadLines(SubSeq(text, i + 1, Len(text)))

\* --------------------------------------------------------------- datetime
Digits == << "0", "1", "2", "3", "4", "5", "6", "7", "8", "9" >>

IsDigit(c) == \E d \in 1..10 : Digits[d] = c

DigitValue(c) == (CHOOSE d \in 1..10 : Digits[d] = c) - 1

\* datetime.isoformat
RECURSIVE IsoFormat(_)
IsoFormat(t) ==
    IF t < 10 THEN << Digits[t + 1] >>
    ELSE IsoFormat(t \div 10) \o << Digits[(t % 10) + 1] >>

\* datetime.fromisoformat accepts the text (otherwise it raises ValueError)
IsIsoFormat(s) == Len(s) > 0 /\ \A i \in 1..Len(s) : IsDigit(s[i])

RECURSIVE FromIsoFormat(_)
FromIsoFormat(s) ==
    IF Len(s) = 1 THEN DigitValue(s[1])
    ELSE 10 * FromIsoFormat(SubSeq(s, 1, Len(s) - 1)) + DigitValue(s[Len(s)])

\* ------------------------------------------------------------------- dict
Entry(k, v) == [key |-> k, val |-> v]

DictHas(d, k) == \E i \in 1..Len(d) : d[i].key = k

DictIndex(d, k) == CHOOSE i \in 1..Len(d) : d[i].key = k

\* d[k] for a key that is present
DictAt(d, k) == d[DictIndex(d, k)].val

\* d.get(k)
DictGet(d, k) == IF DictHas(d, k) THEN Some(DictAt(d, k)) ELSE None

\* d[k] = v: an existing key keeps its position, a new key goes last
DictSet(d, k, v) ==
    IF DictHas(d, k)
    THEN [d EXCEPT ![DictIndex(d, k)] = Entry(k, v)]
    ELSE Append(d, Entry(k, v))

\* d.setdefault(k, v), as the dict it leaves
SetDefault(d, k, v) == IF DictHas(d, k) THEN d ELSE Append(d, Entry(k, v))

\* list(d)
DictKeys(d) == [i \in 1..Len(d) |-> d[i].key]

\* ------------------------------------------------------------ dataclasses
DatedValue(value, time) == [value |-> value, time |-> time]

MetaInformation(filename, time, properties) ==
    [filename |-> filename, time |-> time, properties |-> properties]

\* ------------------------------------------------------ MetaFile.__init__
\* The state of the loading loop: data, current_dict (as the name of the
\* object whose dict it is), file_time, and the exception raised, if any.
LoadStart == [data |-> << >>, current_dict |-> None, file_time |-> None, err |-> ""]

Raise(st, e) == [st EXCEPT !.err = e]

\* a loader whose file_time stays that of the first header it reads
HeaderLineKeepsTime(st, line) ==
    LET pieces == Split(RStripNL(DropFirst(line)), AT) IN
    IF Len(pieces) # 2 THEN Raise(st, "ValueError")
    ELSE IF ~IsIsoFormat(pieces[2]) THEN Raise(st, "ValueError")
    ELSE [data |-> SetDefault(st.data, pieces[1], << >>),
          current_dict |-> Some(pieces[1]),
          file_time |-> IF st.file_time = None THEN Some(FromIsoFormat(pieces[2]))
                        ELSE st.file_time,
          err |-> ""]

\* a line that starts with '@' (lines 91-93); unpacking the split into two
\* names and fromisoformat both raise ValueError
HeaderLine(st, line) ==
    LET pieces == Split(RStripNL(DropFirst(line)), AT) IN
    IF Len(pieces) # 2 THEN Raise(st, "ValueError")
    ELSE IF ~IsIsoFormat(pieces[2]) THEN Raise(st, "ValueError")
    ELSE [data |-> SetDefault(st.data, pieces[1], << >>),
          current_dict |-> Some(pieces[1]),
          file_time |-> Some(FromIsoFormat(pieces[2])),
          err |-> ""]

\* a loader that passes over a property line that has no header before it
PropertyLineSkipsOrphans(st, line) ==
    LET pieces == SplitOnce(RStripNL(line), EQ) IN
    IF Len(pieces) # 2 THEN Raise(st, "ValueError")
    ELSE IF st.current_dict = None \/ st.file_time = None THEN st
    ELSE LET name == st.current_dict[1]
             value == DatedValue(pieces[2], st.file_time[1])
         IN [st EXCEPT !.data =
                DictSet(st.data, name, DictSet(DictAt(st.data, name), pieces[1], value))]

\* a loader that keeps the first value it reads for a key
PropertyLineKeepsFirst(st, line) ==
    LET pieces == SplitOnce(RStripNL(line), EQ) IN
    IF Len(pieces) # 2 THEN Raise(st, "ValueError")
    ELSE IF st.current_dict = None \/ st.file_time = None
         THEN Raise(st, "ValueError")
    ELSE LET name == st.current_dict[1]
             value == DatedValue(pieces[2], st.file_time[1])
         IN [st EXCEPT !.data =
                DictSet(st.data, name,
                        SetDefault(DictAt(st.data, name), pieces[1], value))]

\* any other line (lines 95-100)
PropertyLine(st, line) ==
    LET pieces == SplitOnce(RStripNL(line), EQ) IN
    IF Len(pieces) # 2 THEN Raise(st, "ValueError")
    ELSE IF st.current_dict = None \/ st.file_time = None
         THEN Raise(st, "ValueError")
    ELSE LET name == st.current_dict[1]
             value == DatedValue(pieces[2], st.file_time[1])
         IN [st EXCEPT !.data =
                DictSet(st.data, name, DictSet(DictAt(st.data, name), pieces[1], value))]

LoadLine(st, line) ==
    IF StartsWith(line, AT) THEN HeaderLine(st, line) ELSE PropertyLine(st, line)

RECURSIVE LoadLines(_, _)
LoadLines(st, lines) ==
    IF Len(lines) = 0 \/ st.err # "" THEN st
    ELSE LoadLines(LoadLine(st, Head(lines)), Tail(lines))

\* a constructor that creates the file when there is none
InitFileCreates(fileExists, fileText) ==
    [exists |-> TRUE, content |-> IF fileExists THEN fileText ELSE << >>]

\* the file after MetaFile(path): path.exists() and open(path) for reading
\* (lines 85 and 88) are all the constructor does with it
InitFile(fileExists, fileText) == [exists |-> fileExists, content |-> fileText]

\* MetaFile(path): the exception raised ("" when none) and the object's fields
MetaFileInit(fileExists, fileText) ==
    LET st == IF fileExists THEN LoadLines(LoadStart, ReadLines(fileText)) ELSE LoadStart
    IN [err |-> st.err,
        data |-> IF st.err = "" THEN st.data ELSE << >>,
        new_information |-> << >>]

\* ---------------------------------------------------------- MetaFile.write
\* what the loop body writes for one MetaInformation (lines 111-114)
RECURSIVE PropertyText(_)
PropertyText(properties) ==
    IF Len(properties) = 0 THEN << >>
    ELSE Head(properties).key \o << EQ >> \o Head(properties).val \o << NL >>
         \o PropertyText(Tail(properties))

InfoText(info) ==
    << AT >> \o info.filename \o << AT >> \o IsoFormat(info.time) \o << NL >>
    \o PropertyText(info.properties)

\* a write that goes through new_information from its newest batch
RECURSIVE PendingTextNewestFirst(_)
PendingTextNewestFirst(infos) ==
    IF Len(infos) = 0 THEN << >>
    ELSE InfoText(infos[Len(infos)])
         \o PendingTextNewestFirst(SubSeq(infos, 1, Len(infos) - 1))

RECURSIVE PendingText(_)
PendingText(infos) ==
    IF Len(infos) = 0 THEN << >> ELSE InfoText(Head(infos)) \o PendingText(Tail(infos))

\* the strings of the out.write calls of the loop, in order (lines 110-114)
WriteCallsOf(info) ==
    << << AT >> \o info.filename \o << AT >> \o IsoFormat(info.time) \o << NL >> >>
    \o [n \in 1..Len(info.properties) |-> PropertyText(<< info.properties[n] >>)]

RECURSIVE WriteCalls(_)
WriteCalls(infos) ==
    IF Len(infos) = 0 THEN << >> ELSE WriteCallsOf(Head(infos)) \o WriteCalls(Tail(infos))

\* the text of a run of write calls
RECURSIVE Flatten(_)
Flatten(lines) == IF Len(lines) = 0 THEN << >> ELSE Head(lines) \o Flatten(Tail(lines))

\* open(self.path, 'w')
OpenTruncate(fileExists, fileText) == << >>

\* open(self.path, 'a'): the file exists afterwards, with the text it had
OpenAppend(fileExists, fileText) == IF fileExists THEN fileText ELSE << >>

\* a write that clears new_information whether or not the open succeeded
MetaFileWriteForgets(fileExists, fileText, pending, canOpen) ==
    IF Len(pending) # 0
    THEN IF canOpen
         THEN [err |-> "", exists |-> TRUE,
               content |-> (IF fileExists THEN fileText ELSE << >>) \o PendingText(pending),
               new_information |-> << >>]
         ELSE [err |-> "OSError", exists |-> fileExists, content |-> fileText,
               new_information |-> << >>]
    ELSE [err |-> "", exists |-> fileExists, content |-> fileText,
          new_information |-> << >>]

\* a write that opens the file before it looks at new_information
MetaFileWriteAlwaysOpens(fileExists, fileText, pending, canOpen) ==
    IF canOpen
    THEN [err |-> "", exists |-> TRUE,
          content |-> (IF fileExists THEN fileText ELSE << >>) \o PendingText(pending),
          new_information |-> << >>]
    ELSE [err |-> "OSError", exists |-> fileExists, content |-> fileText,
          new_information |-> pending]

\* write(): canOpen says whether open(self.path, 'a') succeeds
MetaFileWrite(fileExists, fileText, pending, canOpen) ==
    IF Len(pending) # 0
    THEN IF canOpen
         THEN [err |-> "", exists |-> TRUE,
               content |-> OpenAppend(fileExists, fileText) \o PendingText(pending),
               new_information |-> << >>]
         ELSE [err |-> "OSError", exists |-> fileExists, content |-> fileText,
               new_information |-> pending]
    ELSE [err |-> "", exists |-> fileExists, content |-> fileText,
          new_information |-> << >>]

\* ------------------------------------------------- MetaFile.add_information
\* an add that keeps the value a key already has
RECURSIVE SetPropertiesKeepsFirst(_, _, _)
SetPropertiesKeepsFirst(d, properties, time) ==
    IF Len(properties) = 0 THEN d
    ELSE SetPropertiesKeepsFirst(
             SetDefault(d, Head(properties).key, DatedValue(Head(properties).val, time)),
             Tail(properties), time)

RECURSIVE SetProperties(_, _, _)
SetProperties(d, properties, time) ==
    IF Len(properties) = 0 THEN d
    ELSE SetProperties(DictSet(d, Head(properties).key,
                               DatedValue(Head(properties).val, time)),
                       Tail(properties), time)

\* an add that only queues the batch for the next write
MetaFileAddOnlyQueues(d, pending, info) ==
    [new_information |-> Append(pending, info), data |-> d]

\* an add that replaces the dict of the object by the properties of the batch
MetaFileAddReplaces(d, pending, info) ==
    LET d1 == SetDefault(d, info.filename, << >>) IN
    [new_information |-> Append(pending, info),
     data |-> DictSet(d1, info.filename,
                      SetProperties(<< >>, info.properties, info.time))]

MetaFileAdd(d, pending, info) ==
    LET d1 == SetDefault(d, info.filename, << >>) IN
    [new_information |-> Append(pending, info),
     data |-> DictSet(d1, info.filename,
                      SetProperties(DictAt(d1, info.filename), info.properties, info.time))]

\* ------------------------------------------------ MetaFile.get and files
MetaFileGet(d, filename, key) ==
    LET file_data == DictGet(d, filename) IN
    IF file_data # None THEN DictGet(file_data[1], key) ELSE None

\* the files in the reverse of their insertion order
FilesReversed(d) == [i \in 1..Len(d) |-> d[Len(d) + 1 - i].key]

MetaFileFiles(d) == DictKeys(d)

\* ------------------------------------------------------------------- main
TAB == "\t"

DESCRIPTION == << "d", "e", "s", "c", "r", "i", "p", "t", "i", "o", "n" >>

\* str() of a DatedValue, as print shows it: the dataclass repr
Repr(dv) ==
    << "DatedValue(value='" >> \o dv.value \o << "', time=datetime.datetime(" >>
    \o IsoFormat(dv.time) \o << "))" >>

\* print(meta.get(obj.name, item)), without the default
GetLineNoDefault(d, name, item, default) ==
    LET got == MetaFileGet(d, name, item) IN
    IF got # None THEN Repr(got[1]) ELSE << "None" >>

\* value = meta.get(obj.name, item) or args.default; print(value)
\* (a dataclass instance is always true, None is false)
GetLine(d, name, item, default) ==
    LET got == MetaFileGet(d, name, item) IN
    IF got # None THEN Repr(got[1]) ELSE default

\* the loop of the list action: one printed line per file
ListLine(d, file, default) ==
    LET description == MetaFileGet(d, file, DESCRIPTION) IN
    file \o << TAB >> \o (IF description = None THEN default ELSE description[1].value)

ListLines(d, default) ==
    [i \in 1..Len(MetaFileFiles(d)) |-> ListLine(d, MetaFileFiles(d)[i], default)]

\* ----------------------------------------------------------------- inputs
F == << "f" >>
G == << "g" >>
K == << "k" >>
V == << "v" >>
W == << "w", EQ, "v" >>
FOO == << "f", "o", "o" >>

Times == 1..MaxTime

Filenames == { F, G }

Keys == { K, DESCRIPTION }

\* property dicts of a batch: none, one key, and two keys with an empty
\* value and a value that contains '='
Properties ==
    { << >>,
      << Entry(K, V) >>,
      << Entry(DESCRIPTION, << >>), Entry(K, W) >> }

\* batches whose text the record format cannot carry: '=' in a key, a line
\* break in a value, '@' in an object name
OddBatches ==
    { MetaInformation(F, 1, << Entry(<< "k", EQ >>, V) >>),
      MetaInformation(F, 1, << Entry(K, << "v", NL >>) >>),
      MetaInformation(<< "f", AT >>, 1, << Entry(K, V) >>) }

\* the batches added to a store: every time and property dict for one
\* object, one batch for a second object, and the odd ones
Batches ==
    { MetaInformation(F, t, p) : t \in Times, p \in Properties }
    \cup { MetaInformation(G, 1, << Entry(K, V) >>) }
    \cup OddBatches

\* the batches of the runs that query the store
QueryBatches ==
    { MetaInformation(n, 1, p) :
        n \in Filenames,
        p \in { << Entry(K, V) >>,
                << Entry(DESCRIPTION, V) >>,
                << Entry(DESCRIPTION, << >>), Entry(K, W) >> } }

\* records found on disk at the start: no file, a record of one batch, the
\* same without its final line break, and a record that starts with a
\* property line
InitRecords ==
    { [exists |-> FALSE, content |-> << >>],
      [exists |-> TRUE, content |-> << AT, "f", AT, "1", NL, "k", EQ, "v", NL >>],
      [exists |-> TRUE, content |-> << AT, "f", AT, "1", NL, "k", EQ, "v" >>],
      [exists |-> TRUE, content |-> << "k", EQ, "v", NL >>] }

\* the processes that run on one record at the same time
Procs == { 1, 2 }

\* the batch a process adds: each process has its own clock reading; the
\* first sets one or two keys of one object or a value with a line break,
\* the second sets a key of another object or of the same one
ProcBatches(p) ==
    IF p = 1
    THEN { MetaInformation(F, 2, << Entry(K, V) >>),
           MetaInformation(F, 2, << Entry(DESCRIPTION, << >>), Entry(K, V) >>),
           MetaInformation(F, 2, << Entry(K, << "v", NL >>) >>) }
    ELSE { MetaInformation(G, 3, << Entry(K, W) >>),
           MetaInformation(F, 3, << Entry(K, W) >>) }

\* a process before MetaFile(path): where it is, its self.data and
\* self.new_information, the write calls its flush has not yet handed to
\* the file, and the batch it added (None before the add)
ProcStart ==
    [pc |-> "start", data |-> << >>, new_information |-> << >>,
     todo |-> << >>, batch |-> None]

\* ------------------------------------------------------------------ state
VARIABLES
    exists,           \* the record file exists at path
    content,          \* its text
    constructed,      \* a MetaFile object is alive
    data,             \* self.data
    new_information,  \* self.new_information
    last,             \* the last call: its arguments, exception and output
    present,          \* history: the batches replayed into data, in order
    tidy,             \* history: the record loaded was empty or ended its last line
    fits,             \* history: every batch added since the load fits the format
    assigned,         \* history: what the set commands assigned, latest per key
    procs,            \* the processes that share the record: each one's MetaFile
    flush             \* history: the record they found, who wrote which line, when

vars == << exists, content, constructed, data, new_information, last,
           present, tidy, fits, assigned, procs, flush >>

file == << exists, content >>
store == << constructed, data, new_information >>
history == << present, tidy, fits >>
sharing == << procs, flush >>

Call(op, filename, key, default, canOpen, err, out) ==
    [op |-> op, filename |-> filename, key |-> key, default |-> default,
     canOpen |-> canOpen, err |-> err, out |-> out]

\* the batches a record holds, in file order (for the history variable)
RECURSIVE BatchesOfLines(_, _)
BatchesOfLines(acc, lines) ==
    IF Len(lines) = 0 THEN acc
    ELSE LET line == Head(lines) IN
         IF StartsWith(line, AT)
         THEN LET pieces == Split(RStripNL(DropFirst(line)), AT) IN
              BatchesOfLines(
                  Append(acc, MetaInformation(pieces[1], FromIsoFormat(pieces[2]), << >>)),
                  Tail(lines))
         ELSE LET pieces == SplitOnce(RStripNL(line), EQ)
                  n == Len(acc)
              IN BatchesOfLines(
                  IF n = 0 THEN acc
                  ELSE [acc EXCEPT ![n].properties = DictSet(@, pieces[1], pieces[2])],
                  Tail(lines))

RecordBatches(fileExists, fileText) ==
    IF fileExists THEN BatchesOfLines(<< >>, ReadLines(fileText)) ELSE << >>

\* a batch the record format can carry
PlainText(s) == \A i \in 1..Len(s) : s[i] # NL

FitsFormat(info) ==
    /\ PlainText(info.filename)
    /\ Find(info.filename, AT) = 0
    /\ \A i \in 1..Len(info.properties) :
          LET e == info.properties[i] IN
          /\ PlainText(e.key)
          /\ PlainText(e.val)
          /\ Find(e.key, EQ) = 0
          /\ ~StartsWith(e.key, AT)

Init ==
    /\ \E r \in InitRecords : exists = r.exists /\ content = r.content
    /\ constructed = FALSE
    /\ data = << >>
    /\ new_information = << >>
    /\ last = Call("start", << >>, << >>, << >>, TRUE, "", << >>)
    /\ present = << >>
    /\ tidy = FALSE
    /\ fits = FALSE
    /\ assigned = << >>
    /\ procs = [p \in Procs |-> ProcStart]
    /\ flush = [base |-> [exists |-> exists, content |-> content],
                owners |-> << >>, events |-> << >>]

\* meta = MetaFile(path)
Construct ==
    LET m == MetaFileInit(exists, content) IN
    /\ constructed' = (m.err = "")
    /\ data' = m.data
    /\ new_information' = m.new_information
    /\ last' = Call("init", << >>, << >>, << >>, TRUE, m.err, << >>)
    /\ present' = IF m.err = "" THEN RecordBatches(exists, content) ELSE << >>
    /\ tidy' = (m.err = "" /\ (Len(content) = 0 \/ EndsWith(content, NL)))
    /\ fits' = (m.err = "")
    /\ exists' = InitFile(exists, content).exists
    /\ content' = InitFile(exists, content).content
    /\ UNCHANGED << assigned, sharing >>

\* meta.add_information(info)
AddInformation(info) ==
    /\ constructed
    /\ Len(present) < MaxBatches
    /\ LET r == MetaFileAdd(data, new_information, info) IN
       /\ data' = r.data
       /\ new_information' = r.new_information
    /\ last' = Call("add_information", << >>, << >>, << >>, TRUE, "", << >>)
    /\ present' = Append(present, info)
    /\ fits' = (fits /\ FitsFormat(info))
    /\ UNCHANGED << file, constructed, tidy, assigned, sharing >>

\* meta.write(); out records the text appended
Write(canOpen) ==
    /\ constructed
    /\ LET r == MetaFileWrite(exists, content, new_information, canOpen) IN
       /\ exists' = r.exists
       /\ content' = r.content
       /\ new_information' = r.new_information
       /\ last' = Call("write", << >>, << >>, << >>, canOpen, r.err,
                       SubSeq(r.content, Len(content) + 1, Len(r.content)))
    /\ UNCHANGED << constructed, data, history, assigned, sharing >>

\* print(meta.get(filename, key) or default)
Get(filename, key, default) ==
    /\ constructed
    /\ last' = Call("get", filename, key, default, TRUE, "",
                    << GetLine(data, filename, key, default) >>)
    /\ UNCHANGED << file, store, history, assigned, sharing >>

\* the list loop over meta
List(default) ==
    /\ constructed
    /\ last' = Call("list", << >>, << >>, default, TRUE, "", ListLines(data, default))
    /\ UNCHANGED << file, store, history, assigned, sharing >>

\* ------------------------------------------------------ the commands of main
\* dict(attr_spec.split('=', maxsplit=1) for attr_spec in args.items): the
\* exception raised ("" when none) and the dict
RECURSIVE ParseItems(_, _)
ParseItems(acc, items) ==
    IF Len(items) = 0 THEN [err |-> "", properties |-> acc]
    ELSE LET pieces == SplitOnce(Head(items), EQ) IN
         IF Len(pieces) # 2 THEN [err |-> "ValueError", properties |-> << >>]
         ELSE ParseItems(DictSet(acc, pieces[1], pieces[2]), Tail(items))

\* number of header lines of a record
RECURSIVE CountHeaders(_)
CountHeaders(lines) ==
    IF Len(lines) = 0 THEN 0
    ELSE (IF StartsWith(Head(lines), AT) THEN 1 ELSE 0) + CountHeaders(Tail(lines))

HeaderCount(fileText) == CountHeaders(ReadLines(fileText))

RECURSIVE Assign(_, _, _)
Assign(acc, name, properties) ==
    IF Len(properties) = 0 THEN acc
    ELSE Assign(DictSet(acc, << name, Head(properties).key >>, Head(properties).val),
                name, Tail(properties))

\* annovate.py set <name> <items...>, run at time now
MainSet(name, now, items, canOpen) ==
    /\ HeaderCount(content) < MaxBatches
    /\ LET m == MetaFileInit(exists, content)
           parsed == ParseItems(<< >>, items)
           info == MetaInformation(name, now, parsed.properties)
           r == MetaFileAdd(m.data, m.new_information, info)
           f == InitFile(exists, content)
           w == MetaFileWrite(f.exists, f.content, r.new_information, canOpen)
       IN IF m.err # "" \/ parsed.err # ""
          THEN /\ last' = Call("main set", name, << >>, << >>, canOpen,
                               IF m.err # "" THEN m.err ELSE parsed.err, << >>)
               /\ exists' = f.exists
               /\ content' = f.content
               /\ UNCHANGED assigned
          ELSE /\ exists' = w.exists
               /\ content' = w.content
               /\ last' = Call("main set", name, << >>, << >>, canOpen, w.err, << >>)
               /\ assigned' = IF w.err = "" THEN Assign(assigned, name, parsed.properties)
                              ELSE assigned
    /\ UNCHANGED << store, history, sharing >>

\* annovate.py --default <default> get <name> <item>
MainGet(name, item, default) ==
    /\ LET m == MetaFileInit(exists, content) IN
       last' = Call("main get", name, item, default, TRUE, m.err,
                    IF m.err # "" THEN << >>
                    ELSE << GetLine(m.data, name, item, default) >>)
    /\ exists' = InitFile(exists, content).exists
    /\ content' = InitFile(exists, content).content
    /\ UNCHANGED << store, history, assigned, sharing >>

\* annovate.py --default <default> list <directory>
MainList(default) ==
    /\ LET m == MetaFileInit(exists, content) IN
       last' = Call("main list", << >>, << >>, default, TRUE, m.err,
                    IF m.err # "" THEN << >> ELSE ListLines(m.data, default))
    /\ exists' = InitFile(exists, content).exists
    /\ content' = InitFile(exists, content).content
    /\ UNCHANGED << store, history, assigned, sharing >>

Item(key, value) == key \o << EQ >> \o value

\* the items of the set commands: one pair, a value that contains '=', two
\* pairs, and an item without '='
SetItems ==
    { << Item(K, V) >>,
      << Item(K, W) >>,
      << Item(DESCRIPTION, V), Item(K, V) >>,
      << K >> }

Next ==
    \/ Construct
    \/ \E info \in Batches : AddInformation(info)
    \/ \E canOpen \in BOOLEAN : Write(canOpen)

\* one store: load, add, flush
Spec == Init /\ [][Next]_vars

NextQuery ==
    \/ Construct
    \/ \E info \in QueryBatches : AddInformation(info)
    \/ \E canOpen \in BOOLEAN : Write(canOpen)
    \/ \E filename \in Filenames, key \in Keys : Get(filename, key, FOO)
    \/ List(FOO)

\* one store: load, add, flush, and the get and list queries on it
SpecQuery == Init /\ [][NextQuery]_vars

NextMain ==
    \/ \E name \in Filenames, now \in Times, items \in SetItems, canOpen \in BOOLEAN :
          MainSet(name, now, items, canOpen)
    \/ \E name \in Filenames, item \in Keys : MainGet(name, item, FOO)
    \/ MainList(FOO)

\* runs of the command line: every command loads the record afresh
SpecMain == Init /\ [][NextMain]_vars

\* ------------------------------------------- processes that share a record
Event(p, e) == << p, e >>

\* meta = MetaFile(path) in process p
PLoad(p) ==
    /\ procs[p].pc = "start"
    /\ LET m == MetaFileInit(exists, content) IN
       procs' = [procs EXCEPT ![p] =
                    [@ EXCEPT !.pc = IF m.err = "" THEN "loaded" ELSE "failed",
                              !.data = m.data,
                              !.new_information = m.new_information]]
    /\ exists' = InitFile(exists, content).exists
    /\ content' = InitFile(exists, content).content
    /\ flush' = [flush EXCEPT !.events = Append(@, Event(p, "load"))]
    /\ UNCHANGED << store, last, history, assigned >>

\* meta.add_information(info) in process p
PAdd(p, info) ==
    /\ procs[p].pc = "loaded"
    /\ LET r == MetaFileAdd(procs[p].data, procs[p].new_information, info) IN
       procs' = [procs EXCEPT ![p] =
                    [@ EXCEPT !.pc = "added",
                              !.data = r.data,
                              !.new_information = r.new_information,
                              !.batch = Some(info)]]
    /\ UNCHANGED << file, flush, store, last, history, assigned >>

\* meta.write() in process p, up to the open: with nothing pending it is
\* over at once, else open(self.path, 'a') leaves a file at path
PWriteOpen(p) ==
    /\ procs[p].pc \in { "loaded", "added" }
    /\ IF Len(procs[p].new_information) = 0
       THEN /\ procs' = [procs EXCEPT ![p] = [@ EXCEPT !.pc = "done"]]
            /\ UNCHANGED << file, flush >>
       ELSE /\ exists' = TRUE
            /\ content' = OpenAppend(exists, content)
            /\ procs' = [procs EXCEPT ![p] =
                            [@ EXCEPT !.pc = "writing",
                                      !.todo = WriteCalls(procs[p].new_information)]]
            /\ flush' = [flush EXCEPT !.events = Append(@, Event(p, "open"))]
    /\ UNCHANGED << store, last, history, assigned >>

\* meta.write() in process p, after the open: the text layer hands the
\* strings of the next n write calls to the file, which appends them in one
\* piece; the last hand-over is the close, and new_information is emptied
\* after it (line 115)
PWriteFlush(p, n) ==
    /\ procs[p].pc = "writing"
    /\ n \in 1..Len(procs[p].todo)
    /\ LET now == SubSeq(procs[p].todo, 1, n)
           later == SubSeq(procs[p].todo, n + 1, Len(procs[p].todo))
       IN /\ content' = content \o Flatten(now)
          /\ IF Len(later) = 0
             THEN /\ procs' = [procs EXCEPT ![p] =
                                  [@ EXCEPT !.pc = "done", !.todo = later,
                                            !.new_information = << >>]]
                  /\ flush' = [flush EXCEPT
                                  !.owners = @ \o [i \in 1..n |-> p],
                                  !.events = Append(@, Event(p, "close"))]
             ELSE /\ procs' = [procs EXCEPT ![p] = [@ EXCEPT !.todo = later]]
                  /\ flush' = [flush EXCEPT !.owners = @ \o [i \in 1..n |-> p]]
    /\ UNCHANGED << exists, store, last, history, assigned >>

NextProcs ==
    \E p \in Procs :
        \/ PLoad(p)
        \/ \E info \in ProcBatches(p) : PAdd(p, info)
        \/ PWriteOpen(p)
        \/ \E n \in 1..3 : PWriteFlush(p, n)

\* two processes on one record, each one load, one add and one flush
SpecProcs == Init /\ [][NextProcs]_vars

\* ----------------------------------------------------------------- claims
\* batch b assigns key k of object o
Assigns(b, o, k) == b.filename = o /\ DictHas(b.properties, k)

\* the last batch of the history that assigns (o, k), None when there is none
LastAssigning(o, k) ==
    LET S == { i \in 1..Len(present) : Assigns(present[i], o, k) } IN
    IF S = {} THEN None ELSE Some(CHOOSE i \in S : \A j \in S : j <= i)

RoundTrips ==
    LET m == MetaFileInit(exists, content) IN m.err = "" /\ m.data = data

\* C2 as stated: for every batch and all key and value strings, after
\* add_information and a write that appended to a record this program can
\* extend, a fresh load has the entries the writing store has.
C2_RoundTripAnyText ==
    (last.op = "write" /\ last.err = "" /\ Len(last.out) > 0 /\ tidy) => RoundTrips

\* C2 amended: the round trip holds when every batch added since the load
\* fits the record format (no '@' or line break in the object name, no '=',
\* line break or leading '@' in a key, no line break in a value; values may
\* contain '=') and the record loaded was absent, empty or ended with a line
\* break.
C2_RoundTripFormatText ==
    (last.op = "write" /\ last.err = "" /\ tidy /\ fits) => RoundTrips

\* a write has just appended a batch whose value contains '='
C2_Witness ==
    /\ last.op = "write" /\ last.err = "" /\ tidy /\ fits
    /\ Find(last.out, EQ) # 0
    /\ \E i \in 1..Len(data) : \E n \in 1..Len(data[i].val) :
          Find(data[i].val[n].val.value, EQ) # 0

IsPrefix(s, t) == Len(s) <= Len(t) /\ SubSeq(t, 1, Len(s)) = s

\* C3: no step truncates, rewrites or deletes the record: an existing record
\* still exists after every step and its old text is a prefix of its new text
\* (so the text after any flush is a prefix of the text after every later one).
C3_AppendOnly ==
    [][exists => (exists' /\ IsPrefix(content, content'))]_vars

\* a write has appended text behind text the record already had
C3_Witness ==
    /\ last.op = "write" /\ last.err = ""
    /\ Len(last.out) > 0
    /\ Len(content) > Len(last.out)

\* C4 as stated: the get command prints the value string of an (object, key)
\* that is present in the entries loaded, and the default when the pair is
\* absent.
C4_GetPrintsValue ==
    (last.op = "main get" /\ last.err = "") =>
        LET got == MetaFileGet(MetaFileInit(exists, content).data, last.filename, last.key)
        IN last.out = << IF got # None THEN got[1].value ELSE last.default >>

\* C5: a get for an unknown object, or an unknown key of a known object,
\* raises nothing, prints the default and leaves entries, the pending batches
\* and the record as they were.
C5_LookupMiss ==
    [][(last'.op = "get" /\ MetaFileGet(data, last'.filename, last'.key) = None)
        => /\ last'.err = ""
           /\ last'.out = << last'.default >>
           /\ UNCHANGED << data, new_information, exists, content >>
           /\ MetaFileGet(data', last'.filename, last'.key) = None]_vars

\* a get for an object the store does not know has printed the default
C5_Witness ==
    /\ last.op = "get"
    /\ ~DictHas(data, last.filename)
    /\ Len(data) > 0
    /\ last.out = << FOO >>

\* C6: loading a record whose first line is a property line raises the parse
\* error and yields no store and no entries.
C6_PropertyLineFirst ==
    (last.op = "init" /\ exists /\ Len(content) > 0 /\ content[1] # AT)
        => (last.err = "ValueError" /\ ~constructed /\ data = << >>)

\* a load has just run on a record that starts with a property line
C6_Witness ==
    last.op = "init" /\ exists /\ Len(content) > 0 /\ content[1] # AT

\* C7 as stated: after set commands, the get command prints, for an (object,
\* key) a set assigned, the value the most recent such set assigned.
C7_GetPrintsLastSet ==
    (last.op = "main get" /\ DictHas(assigned, << last.filename, last.key >>))
        => (last.err = "" /\ last.out = << DictAt(assigned, << last.filename, last.key >>) >>)

\* the object names of the history, each once, in the order of first mention
RECURSIVE Introduced(_, _)
Introduced(acc, batches) ==
    IF Len(batches) = 0 THEN acc
    ELSE Introduced(IF \E i \in 1..Len(acc) : acc[i] = Head(batches).filename
                    THEN acc ELSE Append(acc, Head(batches).filename),
                    Tail(batches))

\* the description the history gives an object, or the default
DescriptionOr(o, default) ==
    LET i == LastAssigning(o, DESCRIPTION) IN
    IF i = None THEN default ELSE DictAt(present[i[1]].properties, DESCRIPTION)

\* C8: list prints one line per known object, in the order in which the
\* objects were first introduced (by the load, then by the adds), each with
\* the object's description, or with the default when it has none.
C8_ListInOrder ==
    last.op = "list" =>
        LET names == Introduced(<< >>, present) IN
        /\ Len(last.out) = Len(names)
        /\ \A i \in 1..Len(names) :
              last.out[i] = names[i] \o << TAB >> \o DescriptionOr(names[i], last.default)

\* list has printed two objects, the first without a description and the
\* second with one
C8_Witness ==
    /\ last.op = "list"
    /\ Len(last.out) = 2
    /\ LastAssigning(Introduced(<< >>, present)[1], DESCRIPTION) = None
    /\ LastAssigning(Introduced(<< >>, present)[2], DESCRIPTION) # None

\* C9: a write that has batches pending and cannot open the record raises
\* the I/O error and leaves the pending batches, the entries and the record
\* as they were.
C9_FailedWriteKeepsPending ==
    [][(last'.op = "write" /\ ~last'.canOpen /\ Len(new_information) > 0)
        => /\ last'.err = "OSError"
           /\ UNCHANGED << new_information, data, exists, content >>]_vars

\* a write has failed and its batches are still pending
C9_Witness ==
    last.op = "write" /\ last.err = "OSError" /\ Len(new_information) > 0

\* C10: a write with nothing pending leaves the record as it is: existing
\* text is unchanged and an absent record stays absent.
C10_NoOpWrite ==
    [][(last'.op = "write" /\ Len(new_information) = 0)
        => (last'.err = "" /\ UNCHANGED << exists, content >>)]_vars

\* a write with nothing pending has run where no record exists
C10_Witness ==
    /\ last.op = "write" /\ last.err = ""
    /\ Len(last.out) = 0 /\ Len(new_information) = 0
    /\ ~exists

\* the lines a flush of the batches has to append: per batch, in order, the
\* header line and one line per key
PropertyLinesOf(info) ==
    [n \in 1..Len(info.properties) |->
        info.properties[n].key \o << EQ >> \o info.properties[n].val \o << NL >>]

RECURSIVE LinesOf(_)
LinesOf(infos) ==
    IF Len(infos) = 0 THEN << >>
    ELSE << << AT >> \o Head(infos).filename \o << AT >>
            \o IsoFormat(Head(infos).time) \o << NL >> >>
         \o PropertyLinesOf(Head(infos)) \o LinesOf(Tail(infos))

AllFit(infos) == \A i \in 1..Len(infos) : FitsFormat(infos[i])

\* C11: a successful write appends, for each pending batch in the order of
\* the adds, the header line '@name@timestamp' and then one 'key=value' line
\* per key, and leaves nothing pending; and at all times the batches of the
\* record followed by the pending batches are the batches of the history, so
\* every batch is in the record once it is flushed, and only once.
C11_WriteAppendsPending ==
    /\ [][(last'.op = "write" /\ last'.err = "")
            => /\ new_information' = << >>
               /\ content' = content \o Flatten(LinesOf(new_information))
               /\ (AllFit(new_information)
                     => ReadLines(last'.out) = LinesOf(new_information))]_vars
    /\ []((constructed /\ tidy /\ fits)
            => RecordBatches(exists, content) \o new_information = present)

\* a write has appended two batches, one of them with two keys
C11_Witness ==
    /\ last.op = "write" /\ last.err = "" /\ fits /\ tidy
    /\ Len(present) = 2
    /\ last.out = InfoText(present[1]) \o InfoText(present[2])
    /\ \E i \in 1..2 : Len(present[i].properties) = 2

C13_ConstructorCreatesFile ==
    last.op = "init" => exists

\* the batch of the add_information call that has just run
Added == present[Len(present)]

\* C14: add_information puts the batch behind the batches already pending and
\* merges it into the entries at once: before any write, get returns the
\* batch's value and timestamp for every key of the batch.
C14_AddQueuesAndMerges ==
    [][last'.op = "add_information" =>
         LET b == present'[Len(present')] IN
         /\ new_information' = new_information \o << b >>
         /\ \A n \in 1..Len(b.properties) :
               MetaFileGet(data', b.filename, b.properties[n].key)
                   = Some(DatedValue(b.properties[n].val, b.time))]_vars

\* a second batch has been added behind a pending one, nothing is flushed,
\* and get returns its values
C14_Witness ==
    /\ last.op = "add_information"
    /\ Len(new_information) = 2
    /\ ~exists
    /\ Len(Added.properties) = 2
    /\ \A n \in 1..2 :
          MetaFileGet(data, Added.filename, Added.properties[n].key)
              = Some(DatedValue(Added.properties[n].val, Added.time))

\* The record read line by line: the property lines, and for a property line
\* the header that most recently precedes it, the object and the time that
\* header names, the text before the first '=' and the text after it.
RecordLines == ReadLines(content)

PropertyLineNumbers == { i \in 1..Len(RecordLines) : ~StartsWith(RecordLines[i], AT) }

HeaderBefore(i) ==
    CHOOSE h \in 1..i :
        /\ StartsWith(RecordLines[h], AT)
        /\ \A j \in (h + 1)..i : ~StartsWith(RecordLines[j], AT)

HeaderPieces(i) == Split(RStripNL(DropFirst(RecordLines[HeaderBefore(i)])), AT)

LineObject(i) == HeaderPieces(i)[1]

LineTime(i) == FromIsoFormat(HeaderPieces(i)[2])

LineKey(i) ==
    LET body == RStripNL(RecordLines[i]) IN SubSeq(body, 1, Find(body, EQ) - 1)

LineValue(i) ==
    LET body == RStripNL(RecordLines[i]) IN SubSeq(body, Find(body, EQ) + 1, Len(body))

SamePair(i, j) == LineObject(i) = LineObject(j) /\ LineKey(i) = LineKey(j)

\* C15: after a load, every (object, key) of the record has the value of its
\* last property line in file order, everything after the first '=' of that
\* line, and the timestamp of the header that most recently precedes that
\* line.
C15_LoadReplaysInFileOrder ==
    (last.op = "init" /\ last.err = "" /\ exists) =>
        \A i \in PropertyLineNumbers :
            (\A j \in PropertyLineNumbers : j > i => ~SamePair(i, j))
                => MetaFileGet(data, LineObject(i), LineKey(i))
                       = Some(DatedValue(LineValue(i), LineTime(i)))

\* a record has been loaded that assigns one (object, key) in two lines
\* under headers of different times, the later value containing '='
C15_Witness ==
    /\ last.op = "init" /\ last.err = "" /\ exists
    /\ \E i, j \in PropertyLineNumbers :
          /\ i < j
          /\ SamePair(i, j)
          /\ LineTime(i) # LineTime(j)
          /\ LineValue(i) # LineValue(j)
          /\ Find(LineValue(j), EQ) # 0

\* The history of the processes: when an event of a process happened, whether
\* both loaded before either opened the record, whether p closed before q
\* opened, and the record they found.
EventAt(p, e) == CHOOSE i \in 1..Len(flush.events) : flush.events[i] = Event(p, e)

BothFlushed == \A p \in Procs : procs[p].pc = "done" /\ procs[p].batch # None

LoadedBeforeFlushes == \A p, q \in Procs : EventAt(p, "load") < EventAt(q, "open")

InTurn(p, q) == EventAt(p, "close") < EventAt(q, "open")

BaseTidy ==
    \/ ~flush.base.exists
    \/ Len(flush.base.content) = 0
    \/ EndsWith(flush.base.content, NL)

BatchOf(p) == procs[p].batch[1]

\* the record is the old content, then the batch of p, then the batch of q,
\* and a fresh load has the old entries with both batches merged in that order
Accumulated(p, q) ==
    LET old == MetaFileInit(flush.base.exists, flush.base.content)
        fresh == MetaFileInit(exists, content)
    IN /\ exists
       /\ content = OpenAppend(flush.base.exists, flush.base.content)
                        \o InfoText(BatchOf(p)) \o InfoText(BatchOf(q))
       /\ fresh.err = ""
       /\ fresh.data = MetaFileAdd(MetaFileAdd(old.data, << >>, BatchOf(p)).data,
                                   << >>, BatchOf(q)).data

\* C16 as stated: when two stores are loaded from the same record before
\* either flushes, each adds one batch and flushes, and the flushes run one
\* after the other, the record holds the old content followed by both
\* batches in flush order and a fresh load reflects both batches.
C16_SequentialFlushesAccumulate ==
    \A p, q \in Procs :
        (p # q /\ BothFlushed /\ LoadedBeforeFlushes /\ InTurn(p, q))
            => Accumulated(p, q)

\* C16 amended: the same, when the record the stores were loaded from is
\* absent, empty or ends with a line break and both batches fit the record
\* format.
C16_SequentialFlushesOfFormatTextAccumulate ==
    \A p, q \in Procs :
        (/\ p # q /\ BothFlushed /\ LoadedBeforeFlushes /\ InTurn(p, q)
         /\ BaseTidy /\ FitsFormat(BatchOf(p)) /\ FitsFormat(BatchOf(q)))
            => Accumulated(p, q)

\* two processes loaded a record of one batch, then each added a batch for
\* the same key of the same object, and the second flushed after the first
\* had closed
C16_Witness ==
    /\ BothFlushed /\ LoadedBeforeFlushes /\ InTurn(1, 2)
    /\ BaseTidy /\ FitsFormat(BatchOf(1)) /\ FitsFormat(BatchOf(2))
    /\ flush.base.exists /\ Len(flush.base.content) > 0
    /\ BatchOf(1).filename = BatchOf(2).filename
    /\ Len(flush.owners) = 4

\* the process that wrote line i of the record, 0 for a line that was there
\* before (for batches that fit the format, one write call is one line)
LineOwner(i) ==
    LET old == Len(RecordLines) - Len(flush.owners) IN
    IF i <= old THEN 0 ELSE flush.owners[i - old]

WritersFit == \A p \in Procs : procs[p].batch # None => FitsFormat(BatchOf(p))

\* property lines written by one process under the header of another
Strays ==
    { i \in PropertyLineNumbers :
        LineOwner(i) # 0 /\ LineOwner(HeaderBefore(i)) # LineOwner(i) }

LastOfPair(i) == \A j \in PropertyLineNumbers : j > i => ~SamePair(i, j)

\* C17: nothing coordinates the flushes of two processes, so a property line
\* of one process's batch can come to follow the other process's header; a
\* load then attributes that line's key and value to the object and the
\* timestamp of the other process's batch, which are not those of the batch
\* the line belongs to.
C17_StrayLineIsMisattributed ==
    (BaseTidy /\ WritersFit) =>
        \A i \in Strays :
            LET mine == BatchOf(LineOwner(i))
                theirs == BatchOf(LineOwner(HeaderBefore(i)))
                fresh == MetaFileInit(exists, content)
            IN /\ DictGet(mine.properties, LineKey(i)) = Some(LineValue(i))
               /\ << theirs.filename, theirs.time >> # << mine.filename, mine.time >>
               /\ fresh.err = ""
               /\ LastOfPair(i) =>
                     MetaFileGet(fresh.data, theirs.filename, LineKey(i))
                         = Some(DatedValue(LineValue(i), theirs.time))

\* both processes have flushed into a record of one batch, and the last line
\* is a property line of one under the header of the other, for another
\* object: a load gives that object the value, and the object of the batch
\* does not have it with the batch's timestamp
C17_Witness ==
    /\ BaseTidy /\ WritersFit /\ BothFlushed
    /\ flush.base.exists /\ Len(flush.base.content) > 0
    /\ \E i \in Strays :
          LET mine == BatchOf(LineOwner(i))
              theirs == BatchOf(LineOwner(HeaderBefore(i)))
              fresh == MetaFileInit(exists, content)
          IN /\ LastOfPair(i)
             /\ theirs.filename # mine.filename
             /\ MetaFileGet(fresh.data, theirs.filename, LineKey(i))
                    = Some(DatedValue(LineValue(i), theirs.time))
             /\ MetaFileGet(fresh.data, mine.filename, LineKey(i))
                    # Some(DatedValue(LineValue(i), mine.time))

\* what a fresh MetaFile has once the pending batches are written
FlushedAndReloaded ==
    LET w == MetaFileWrite(exists, content, new_information, TRUE) IN
    MetaFileInit(w.exists, w.content)

\* C18 as stated: in every state of a store loaded from a record that is
\* absent, empty or ends with a line break, the entries are what a fresh
\* load gives once the pending batches are flushed.
C18_EntriesAreReplay ==
    (constructed /\ tidy) =>
        (FlushedAndReloaded.err = "" /\ FlushedAndReloaded.data = data)

\* C18 amended: the same, for stores to which only batches that fit the
\* record format have been added since the load (no '@' or line break in the
\* object name, no '=', line break or leading '@' in a key, no line break in
\* a value).
C18_EntriesAreReplayOfFormatText ==
    (constructed /\ tidy /\ fits) =>
        (FlushedAndReloaded.err = "" /\ FlushedAndReloaded.data = data)

\* a store over a record with text has a batch pending after a failed write
C18_Witness ==
    /\ constructed /\ tidy /\ fits
    /\ last.op = "write" /\ last.err = "OSError"
    /\ Len(content) > 0
    /\ Len(new_information) > 0

\* the (object, key) pairs of the entries
PairsOf(d) ==
    UNION { { << d[i].key, d[i].val[n].key >> : n \in 1..Len(d[i].val) } : i \in 1..Len(d) }

====
